---- MODULE Spec2Model ----
(***************************************************************************)
(* Tender ingestion and content-safety pipeline of rmp4/graphiti_sample:   *)
(* TenderScraper._fetch, TenderParser.parse_tender_detail, ContentFilter,  *)
(* WritePreview and TenderProcessor.process_tender.                        *)
(*                                                                         *)
(* A Python str is a sequence of characters; a character is a one-letter   *)
(* string, or "U+XXXX" for a character outside ASCII.  An optional value   *)
(* is None (the empty tuple) or Some(v) (a one-element tuple).             *)
(***************************************************************************)
EXTENDS Integers, Sequences, FiniteSets, Bags, TLC

None == <<>>
Some(v) == <<v>>

(* ---------------------------------------------------------------------- *)
(* Characters and strings                                                 *)
(* ---------------------------------------------------------------------- *)

UpperLetters ==
    {"A", "B", "C", "D", "E", "F", "G", "H", "I", "J", "K", "L", "M",
     "N", "O", "P", "Q", "R", "S", "T", "U", "V", "W", "X", "Y", "Z"}

LowerLetters ==
    {"a", "b", "c", "d", "e", "f", "g", "h", "i", "j", "k", "l", "m",
     "n", "o", "p", "q", "r", "s", "t", "u", "v", "w", "x", "y", "z"}

Digits == {"0", "1", "2", "3", "4", "5", "6", "7", "8", "9"}

\* The characters of the range U+4E00..U+9FFF that occur in the program's
\* own strings (keywords, entity-summary header, amount labels).
CJKChars ==
    {"U+5BC6", "U+78BC", "U+500B", "U+4EBA", "U+8CC7", "U+6599", "U+8EAB",
     "U+5206", "U+8B49", "U+96FB", "U+8A71", "U+5730", "U+5740", "U+81EA",
     "U+5B9A", "U+7FA9", "U+5BE6", "U+9AD4", "U+985E", "U+578B", "U+9810",
     "U+7B97", "U+91D1", "U+984D", "U+6C7A", "U+6A19", "U+6458", "U+8981"}

\* str.split() / \s / str.strip(): the whitespace characters.
Whitespace == {" ", "\n", "\t"}

\* \w of the regular expression: letters, digits, underscore, CJK.
WordChars ==
    UpperLetters \cup LowerLetters \cup Digits \cup {"_"} \cup CJKChars

\* The punctuation the regular expression of clean_content keeps:
\* fullwidth , . ! ? ; : and the bracket pairs, then ASCII - . ,
KeptPunctuation ==
    {"U+FF0C", "U+3002", "U+FF01", "U+FF1F", "U+FF1B", "U+FF1A", "U+300C",
     "U+300D", "U+300E", "U+300F", "U+FF08", "U+FF09", "U+3010", "U+3011",
     "-", ".", ","}

\* The lower-case letter of every upper-case letter.
ToLower ==
    [ A |-> "a", B |-> "b", C |-> "c", D |-> "d", E |-> "e", F |-> "f",
      G |-> "g", H |-> "h", I |-> "i", J |-> "j", K |-> "k", L |-> "l",
      M |-> "m", N |-> "n", O |-> "o", P |-> "p", Q |-> "q", R |-> "r",
      S |-> "s", T |-> "t", U |-> "u", V |-> "v", W |-> "w", X |-> "x",
      Y |-> "y", Z |-> "z" ]

\* str.lower() on one character.
LowerChar(c) == IF c \in DOMAIN ToLower THEN ToLower[c] ELSE c

\* str.lower()
Lower(s) ==
    IF s = <<>> THEN <<>>
    ELSE SubSeq([i \in DOMAIN s |-> LowerChar(s[i])], 1, Len(s))

\* keyword in content: substring test.
Contains(s, kw) ==
    \E i \in 0 .. (Len(s) - Len(kw)) :
        \A j \in 1 .. Len(kw) : s[i + j] = kw[j]

\* str.strip(): drop leading and trailing whitespace.
Strip(s) ==
    LET solid == {i \in DOMAIN s : s[i] \notin Whitespace}
    IN  IF solid = {} THEN <<>>
        ELSE SubSeq(s, CHOOSE i \in solid : \A j \in solid : i <= j,
                       CHOOSE i \in solid : \A j \in solid : i >= j)

\* ' '.join(content.split()): every whitespace run between two words becomes
\* one space, the whitespace at the ends goes.
JoinSplit(s) ==
    IF s = <<>> THEN <<>>
    ELSE LET marked ==
                 [i \in DOMAIN s |->
                    IF s[i] \notin Whitespace THEN s[i]
                    ELSE IF /\ i > 1
                            /\ s[i - 1] \notin Whitespace
                            /\ \E j \in (i + 1) .. Len(s) : s[j] \notin Whitespace
                         THEN " "
                         ELSE ""]
         IN  SelectSeq(marked, LAMBDA c : c # "")

\* re.sub(r'[^\w\s<CJK><kept punctuation>]', '', content): delete every
\* character outside the allow-set.
AllowedChars == WordChars \cup Whitespace \cup KeptPunctuation

RemoveSpecial(s) == SelectSeq(s, LAMBDA c : c \in AllowedChars)

(* ---------------------------------------------------------------------- *)
(* ContentFilter                                                          *)
(* ---------------------------------------------------------------------- *)

\* ContentFilter.__init__: the default blacklist, in list order.
DefaultBlacklist ==
    << <<"U+5BC6", "U+78BC">>,
       <<"p", "a", "s", "s", "w", "o", "r", "d">>,
       <<"s", "e", "c", "r", "e", "t">>,
       <<"t", "o", "k", "e", "n">>,
       <<"k", "e", "y">>,
       <<"U+500B", "U+4EBA", "U+8CC7", "U+6599">>,
       <<"U+8EAB", "U+5206", "U+8B49">>,
       <<"U+96FB", "U+8A71">>,
       <<"U+5730", "U+5740">> >>

NewContentFilter ==
    [ blacklist_keywords |-> DefaultBlacklist,
      allowed_agencies   |-> {},
      min_content_length |-> 10,
      max_content_length |-> 10000 ]

\* for keyword in self.blacklist_keywords: if keyword in content_lower --
\* the list positions of the keywords found; the keyword is compared as it
\* was configured, the content in lower case.
BlacklistHits(keywords, content_lower) ==
    {i \in DOMAIN keywords : Contains(content_lower, keywords[i])}

\* A lower limit that is exclusive.
TooShort_Exclusive(cf, content) ==
    content = <<>> \/ Len(Strip(content)) <= cf.min_content_length

\* not content or len(content.strip()) < self.min_content_length
TooShort(cf, content) ==
    content = <<>> \/ Len(Strip(content)) < cf.min_content_length

\* len(content) > self.max_content_length
TooLong(cf, content) == Len(content) > cf.max_content_length

\* ContentFilter.is_content_safe: (is_safe, reason); the reason is a tag,
\* with the keyword for a blacklist hit.
IsContentSafe(cf, content) ==
    IF TooShort(cf, content)
    THEN [safe |-> FALSE, reason |-> "too_short", keyword |-> None]
    ELSE IF TooLong(cf, content)
    THEN [safe |-> FALSE, reason |-> "too_long", keyword |-> None]
    ELSE LET hits == BlacklistHits(cf.blacklist_keywords, Lower(content))
         IN  IF hits # {}
             THEN [safe |-> FALSE, reason |-> "blacklisted",
                   keyword |-> Some(cf.blacklist_keywords[
                       CHOOSE i \in hits : \A j \in hits : i <= j])]
             ELSE [safe |-> TRUE, reason |-> "safe", keyword |-> None]

\* ContentFilter.is_agency_allowed
IsAgencyAllowed(cf, agency) ==
    IF cf.allowed_agencies = {} THEN TRUE ELSE agency \in cf.allowed_agencies

\* ContentFilter.clean_content
CleanContent(content) == Strip(RemoveSpecial(JoinSplit(content)))

(* ---------------------------------------------------------------------- *)
(* The remote portal: pages the portal may serve                          *)
(* ---------------------------------------------------------------------- *)

\* A page is what the locators of the parser and the episode builder can see
\* of it: blank (empty or whitespace-only markup), text (some extractable
\* text), the cells and heading the parser looks up, and the titled text
\* blocks ("units") the episode builder derives from it.
NameLabPCs   == <<"L", "a", "b", " ", "P", "C", "s">>
AgencyCity   == <<"C", "i", "t", "y", " ", "H", "a", "l", "l">>
AgencyWorks  == <<"W", "o", "r", "k", "s", " ", "D", "e", "p", "t">>
BudgetText   == <<"N", "T", "$", "1", ",", "2", "0", "0">>
TitleScope   == <<"S", "c", "o", "p", "e">>
TitleLogin   == <<"L", "o", "g", "i", "n">>
TitleNotes   == <<"N", "o", "t", "e", "s">>
TextBuy      == <<"b", "u", "y", " ", "1", "2", " ", "P", "C", "s">>
TextPassword == <<"P", "a", "s", "s", "w", "o", "r", "d", "1", "2", "3">>
TextApiKey   == <<"a", "p", "i", " ", "k", "@", "e", "y", " ", "4", "2">>
TextShort    == <<"t", "o", "o", " ", "s", "h", "o", "r", "t">>

Episode(title, content) == [title |-> title, content |-> content]

EmptyPage ==
    [ blank |-> FALSE, text |-> TRUE, td_name |-> None, h1 |-> None,
      agency |-> None, budget |-> None, award_amount |-> None,
      open_date |-> None, units |-> <<>> ]

PageGood ==
    [ EmptyPage EXCEPT
        !.td_name = Some(NameLabPCs),
        !.agency  = Some(AgencyCity),
        !.budget  = Some(BudgetText),
        !.units   = << Episode(TitleScope, TextBuy),
                       Episode(TitleLogin, TextPassword),
                       Episode(TitleNotes, TextApiKey) >> ]

PageRejected ==
    [ EmptyPage EXCEPT
        !.h1     = Some(NameLabPCs),
        !.agency = Some(AgencyWorks),
        !.units  = << Episode(TitleLogin, TextShort) >> ]

PageNoName    == [ EmptyPage EXCEPT !.agency = Some(AgencyWorks) ]
PageEmptyName ==
    [ EmptyPage EXCEPT !.h1 = Some(<<>>),
                       !.units = << Episode(TitleScope, TextBuy) >> ]
PageNoAgency ==
    [ EmptyPage EXCEPT !.h1 = Some(NameLabPCs),
                       !.units = << Episode(TitleScope, TextBuy) >> ]
PageBlank     == [ EmptyPage EXCEPT !.blank = TRUE, !.text = FALSE ]
PageNoText    == [ EmptyPage EXCEPT !.text = FALSE ]

Pages ==
    {PageGood, PageRejected, PageNoName, PageEmptyName, PageNoAgency,
     PageBlank, PageNoText}

TenderIds == {"T-001", "T-002"}

(* ---------------------------------------------------------------------- *)
(* TenderParser, the episode builder, the entities                        *)
(* ---------------------------------------------------------------------- *)

\* A parser that treats a page on which no locator matches as unparsable.
ParseTenderDetail_AllAbsentIsError(html) ==
    IF html.blank
    THEN [error |-> "TenderDataError", data |-> None]
    ELSE IF \/ ~html.text
            \/ /\ html.td_name = None /\ html.h1 = None
               /\ html.agency = None /\ html.budget = None
    THEN [error |-> "ParsingError", data |-> None]
    ELSE [error |-> "none",
          data  |-> Some([ tender_name  |->
                               IF html.td_name # None THEN html.td_name
                               ELSE html.h1,
                           agency       |-> html.agency,
                           budget       |-> html.budget,
                           award_amount |-> html.award_amount,
                           open_date    |-> html.open_date,
                           units        |-> html.units ])]

\* TenderParser.parse_tender_detail: the error raised, or the field map.
ParseTenderDetail(html) ==
    IF html.blank
    THEN [error |-> "TenderDataError", data |-> None]
    ELSE IF ~html.text
    THEN [error |-> "ParsingError", data |-> None]
    ELSE [error |-> "none",
          data  |-> Some([ tender_name  |->
                               IF html.td_name # None THEN html.td_name
                               ELSE html.h1,
                           agency       |-> html.agency,
                           budget       |-> html.budget,
                           award_amount |-> html.award_amount,
                           open_date    |-> html.open_date,
                           units        |-> html.units ])]

\* A test for None only.
NameAbsent_NoneOnly(tender_data) == tender_data.tender_name = None

\* not tender_data.get("tender_name"): None or the empty string.
NameAbsent(tender_data) ==
    tender_data.tender_name = None \/ tender_data.tender_name[1] = <<>>

\* convert_tender_data_to_episodes: process_tender reads .title and .content
\* of every element of the list; the elements are the page's units.
ConvertTenderDataToEpisodes(tender_data) == tender_data.units

EntityData(type, name) == [entity_type |-> type, name |-> name]

TypeTenderCase   == <<"T", "e", "n", "d", "e", "r", "C", "a", "s", "e">>
TypeOrganization == <<"O", "r", "g", "a", "n", "i", "z", "a", "t", "i", "o", "n">>
TypeAmount       == <<"A", "m", "o", "u", "n", "t">>
BudgetPrefix     == <<"U+9810", "U+7B97", "U+91D1", "U+984D", "_">>
AwardPrefix      == <<"U+6C7A", "U+6A19", "U+91D1", "U+984D", "_">>
SummaryHeader    ==
    <<"U+81EA", "U+5B9A", "U+7FA9", "U+5BE6", "U+9AD4", "U+985E", "U+578B",
      "U+FF1A", "\n">>
SummaryNamePrefix == <<"U+5BE6", "U+9AD4", "U+6458", "U+8981", "_">>

Truthy(opt) == opt # None /\ opt[1] # <<>>

\* create_tender_entities, for the fields parse_tender_detail fills in
\* (the pages name no technology keyword).
CreateTenderEntities(tender_data) ==
    (IF Truthy(tender_data.tender_name)
     THEN <<EntityData(TypeTenderCase, tender_data.tender_name[1])>>
     ELSE <<>>)
    \o (IF Truthy(tender_data.agency)
        THEN <<EntityData(TypeOrganization, tender_data.agency[1])>>
        ELSE <<>>)
    \o (IF Truthy(tender_data.budget)
        THEN <<EntityData(TypeAmount, BudgetPrefix \o tender_data.budget[1])>>
        ELSE <<>>)
    \o (IF Truthy(tender_data.award_amount)
        THEN <<EntityData(TypeAmount, AwardPrefix \o tender_data.award_amount[1])>>
        ELSE <<>>)

\* entity_summary of process_tender: the header, then one line
\* "- <type>: <name>\n" per entity.
RECURSIVE EntityLines(_)
EntityLines(entities) ==
    IF entities = <<>> THEN <<>>
    ELSE <<"-", " ">> \o Head(entities).entity_type \o <<":", " ">>
         \o Head(entities).name \o <<"\n">> \o EntityLines(Tail(entities))

EntitySummary(entities) == SummaryHeader \o EntityLines(entities)

\* WritePreview.should_proceed: True when the preview is disabled, and True
\* after logging the preview when it is enabled.
ShouldProceed(enable_preview, episodes, entities) ==
    IF ~enable_preview THEN TRUE ELSE TRUE

(* ---------------------------------------------------------------------- *)
(* State                                                                  *)
(* ---------------------------------------------------------------------- *)

\* The number of process_tender calls of a run.
MaxCalls == 2

\* The number of keywords configure_content_filter adds to the blacklist.
MaxKeywords == 1

\* The length of the strings the pure functions are called with.
MaxLen == 5

\* TenderScraper.max_retries
max_retries == 3

VARIABLES
    content_filter,     \* TenderProcessor.content_filter: None or Some(filter)
    write_preview,      \* TenderProcessor.write_preview.enable_preview
    processed_tenders,  \* TenderProcessor.processed_tenders
    stats,              \* TenderProcessor.stats
    session,            \* TenderScraper.session: "None" or "open"
    fetch,              \* the _fetch call in progress
    call,               \* the process_tender call in progress
    store,              \* the add_episode operations the store has received:
                        \* operation -> how many times
    last,               \* the process_tender call that finished last
    probe,              \* a call of one of the pure functions: its
                        \* arguments and what it returned
    run,                \* tender_demo.main: where the run is
    graph,              \* main.py: the bag of the names of the Episodic
                        \* nodes of the graph store
    job,                \* main.py: the process_episodes_batch call
    tasks,              \* process_tender calls running concurrently as
                        \* asyncio tasks: task -> where it is suspended
    sample              \* process_sample_tenders.py: the
                        \* process_all_tender_files call

vars ==
    <<content_filter, write_preview, processed_tenders, stats, session,
      fetch, call, store, last, probe, run, graph, job, tasks, sample>>

\* What the processor and the scraper leave alone.
aux == <<probe, run, graph, job, tasks, sample>>

NoProbe == [fn |-> "none", arg |-> <<>>, out |-> <<>>, again |-> None]

NoRun == [pc |-> "none", client |-> "none", printed |-> FALSE]

\* main.py, process_episodes_batch: no call made yet.  `prev` is the input
\* and the log of the call before the current one.
NoJob ==
    [ pc |-> "idle", n |-> 0, episodes |-> <<>>, unique_episodes |-> <<>>,
      i |-> 0, log |-> <<>>,
      stats |-> [total_processed |-> 0, new_added |-> 0, updated |-> 0,
                 skipped |-> 0],
      prev |-> None ]

NewStats ==
    [ total_processed |-> 0, successful_writes |-> 0,
      filtered_content |-> 0, preview_rejected |-> 0 ]

\* The asyncio tasks that run process_tender on one TenderProcessor.
TaskIds == {"task1", "task2"}

\* A task that has not started its call.  `issued` is the number of
\* add_episode calls the task has made, `cancels` the number of times it was
\* cancelled.
NoTask ==
    [ pc |-> "idle", tender_id |-> "", attempt |-> 0, text |-> None,
      episodes |-> <<>>, i |-> 0, successful_episodes |-> 0,
      issued |-> 0, cancels |-> 0 ]

\* SampleTenderProcessor.__init__: the statistics, and no call of
\* process_all_tender_files yet.  `errors` is the length of stats["errors"],
\* `report` the lines of print_stats once it has run.
NoSample ==
    [ pc |-> "idle", files |-> <<>>, i |-> 0,
      stats |-> [ total_files |-> 0, successful_files |-> 0,
                  total_episodes |-> 0, total_entities |-> 0,
                  errors |-> 0 ],
      report |-> None ]

NoFetch ==
    [ pc |-> "idle", url |-> "", attempt |-> 0, gets |-> 0, slept |-> 0,
      jitters |-> 0, resp |-> "none", text |-> None ]

NoCall ==
    [ pc |-> "idle", tender_id |-> "", force_update |-> FALSE,
      tender_data |-> None, episodes |-> <<>>, entities |-> <<>>,
      i |-> 0, successful_episodes |-> 0, log |-> <<>>, trace |-> <<>>,
      stats0 |-> NewStats, pt0 |-> {} ]

NoLast ==
    [ n |-> 0, tender_id |-> "", force_update |-> FALSE, fetched |-> FALSE,
      prev |-> "none", outcome |-> "none", raised |-> FALSE, result |-> <<>>,
      parsed |-> FALSE, name |-> None, agency |-> None, batch |-> <<>>,
      log |-> <<>>, trace |-> <<>>,
      stats0 |-> NewStats, stats1 |-> NewStats, pt0 |-> {}, pt1 |-> {} ]

\* TenderProcessor.__init__ (and TenderScraper.__init__ inside it)
Init ==
    /\ content_filter \in {None, Some(NewContentFilter)}
    /\ write_preview = TRUE
    /\ processed_tenders = {}
    /\ stats = NewStats
    /\ session = "None"
    /\ fetch = NoFetch
    /\ call = NoCall
    /\ store = EmptyBag
    /\ last = NoLast
    /\ probe = NoProbe
    /\ run = NoRun
    /\ graph = EmptyBag
    /\ job = NoJob
    /\ tasks = [t \in TaskIds |-> NoTask]
    /\ sample = NoSample

(* ---------------------------------------------------------------------- *)
(* TenderProcessor.configure_content_filter                               *)
(* ---------------------------------------------------------------------- *)

\* The filter after configure_content_filter: keywords appended to the list,
\* agencies added to the set, a limit replaced when it is not None.
Configured(cf, blacklist_keywords, allowed_agencies, min_length, max_length) ==
    [ blacklist_keywords |-> cf.blacklist_keywords \o blacklist_keywords,
      allowed_agencies   |-> cf.allowed_agencies \cup allowed_agencies,
      min_content_length |-> IF min_length # None THEN min_length[1]
                             ELSE cf.min_content_length,
      max_content_length |-> IF max_length # None THEN max_length[1]
                             ELSE cf.max_content_length ]

\* configure_content_filter, which from_config runs right after
\* construction: an absent list is the empty one, an absent limit is None.
ConfigureContentFilter(blacklist_keywords, allowed_agencies, min_length, max_length) ==
    /\ call.pc = "idle"
    /\ stats.total_processed = 0
    /\ probe.fn = "none"
    /\ content_filter # None
    /\ Len(content_filter[1].blacklist_keywords) + Len(blacklist_keywords)
           <= Len(DefaultBlacklist) + MaxKeywords
    /\ content_filter' =
           Some(Configured(content_filter[1], blacklist_keywords,
                           allowed_agencies, min_length, max_length))
    /\ UNCHANGED <<write_preview, processed_tenders, stats, session, fetch,
                   call, store, last>>
    /\ UNCHANGED aux

(* ---------------------------------------------------------------------- *)
(* TenderScraper                                                          *)
(* ---------------------------------------------------------------------- *)

\* What one GET can come to: status 200 and the body read ("ok"), another
\* status ("http_status"), an exception of session.get ("get_error"),
\* status 200 and an exception of response.text() ("body_error").
ResponseKinds == {"ok", "http_status", "get_error", "body_error"}

\* response.status == 200
Status200 == {"ok", "body_error"}

\* A backoff that does not grow.
BackoffSeconds_Flat(attempt) == 1

\* await asyncio.sleep(2 ** attempt)
BackoffSeconds(attempt) == 2 ^ attempt

\* A loop over range(1, self.max_retries + 2).
HasNextAttempt_OneMore(attempt) == attempt < max_retries + 1

\* for attempt in range(1, self.max_retries + 1): whether another
\* iteration follows iteration `attempt`.
HasNextAttempt(attempt) == attempt < max_retries

\* fetch_tender_detail and the first lines of _fetch: the url of the tender,
\* the session, the loop variable's start.
BeginFetch(tender_id) ==
    [ NoFetch EXCEPT !.pc = "get", !.url = tender_id, !.attempt = 1 ]

\* One iteration of the retry loop of _fetch: the GET; with status 200 the
\* body, the jitter sleep and the return; otherwise the backoff sleep and the
\* next iteration, or the raise after the last one.
FetchAttempt(kind, page) ==
    /\ fetch.pc = "get"
    /\ IF kind = "ok"
       THEN fetch' = [ fetch EXCEPT !.pc = "returned",
                                    !.gets = @ + 1,
                                    !.jitters = @ + 1,
                                    !.resp = kind,
                                    !.text = Some(page) ]
       ELSE fetch' = [ fetch EXCEPT
                         !.pc = IF HasNextAttempt(fetch.attempt)
                                THEN "get" ELSE "raised",
                         !.attempt = IF HasNextAttempt(fetch.attempt)
                                     THEN @ + 1 ELSE @,
                         !.gets = @ + 1,
                         !.slept = @ + BackoffSeconds(fetch.attempt),
                         !.resp = kind ]
    /\ UNCHANGED <<content_filter, write_preview, processed_tenders, stats,
                   session, call, store, last>>
    /\ UNCHANGED aux

(* ---------------------------------------------------------------------- *)
(* TenderProcessor.process_tender                                         *)
(* ---------------------------------------------------------------------- *)

\* A check that never finds the identifier.
AlreadyProcessed_Never(tender_id, force_update, processed) == FALSE

\* if not force_update and tender_id in self.processed_tenders
AlreadyProcessed(tender_id, force_update, processed) ==
    ~force_update /\ tender_id \in processed

\* Step 5: the safety check of every episode, then the cleaning of the
\* episodes that passed; the rejected ones are dropped.
RECURSIVE FilterEpisodes(_, _)
FilterEpisodes(cf, episodes) ==
    IF episodes = <<>> THEN <<>>
    ELSE LET e    == Head(episodes)
             rest == FilterEpisodes(cf, Tail(episodes))
         IN  IF IsContentSafe(cf, e.content).safe
             THEN <<Episode(e.title, CleanContent(e.content))>> \o rest
             ELSE rest

\* A handler that logs and returns an empty list.
ExceptHandler_Swallow(error) == [raised |-> FALSE, result |-> <<>>]

\* except Exception as e: logger.error(...); raise
ExceptHandler(error) == [raised |-> TRUE, result |-> <<>>]

\* A return statement of process_tender.
Return(result) == [raised |-> FALSE, result |-> result]

\* A return of nothing at the end of the try block.
ReturnEpisodes_Nothing(episodes) == Return(<<>>)

\* return episodes, the last statement of the try block.
ReturnEpisodes(episodes) == Return(episodes)

\* A loop that a failed write ends.
NextEpisodeIndex_AbortOnFailure(i, n, ok) == IF ok THEN i + 1 ELSE n + 1

\* The loop of step 11 after the write of episode i: the next index, whether
\* the write succeeded or its exception was caught and logged.
NextEpisodeIndex(i, n, ok) == i + 1

\* successful_episodes += 1 after an add_episode that did not raise.
CountSuccess(successful_episodes, ok) ==
    IF ok THEN successful_episodes + 1 ELSE successful_episodes

\* An increment whatever the writes came to.
UpdateStats_Always(st, successful_episodes) ==
    [st EXCEPT !.successful_writes = @ + 1]

\* if successful_episodes > 0: self.stats["successful_writes"] += 1
UpdateStats(st, successful_episodes) ==
    IF successful_episodes > 0
    THEN [st EXCEPT !.successful_writes = @ + 1]
    ELSE st

\* A call that does not record its identifier.
AddProcessed_Omitted(processed, tender_id) == processed

\* self.processed_tenders.add(tender_id)
AddProcessed(processed, tender_id) == processed \cup {tender_id}

\* One add_episode operation as the store receives it: name, episode_body
\* and the tender of source_description ("unit": ..._招標案_<id>, "summary":
\* ..._實體摘要_<id>).
AddEpisode(tender_id, kind, name, body) ==
    [ tender_id |-> tender_id, kind |-> kind, name |-> name,
      episode_body |-> body ]

\* The store after it received the operation.
Received(bag, op) == bag (+) SetToBag({op})

\* The record of a finished call: how it ended (and how the call before it
\* ended), the field map's case name, and the state before and after it.
Finished(c, fetched, outcome, end, st, processed) ==
    [ n |-> st.total_processed,
      tender_id |-> c.tender_id, force_update |-> c.force_update,
      fetched |-> fetched, prev |-> last.outcome, outcome |-> outcome,
      raised |-> end.raised, result |-> end.result,
      parsed |-> c.tender_data # None,
      name |-> IF c.tender_data # None
               THEN c.tender_data[1].tender_name ELSE None,
      agency |-> IF c.tender_data # None
                 THEN c.tender_data[1].agency ELSE None,
      batch |-> c.episodes, log |-> c.log, trace |-> c.trace,
      stats0 |-> c.stats0, stats1 |-> st,
      pt0 |-> c.pt0, pt1 |-> processed ]

\* Lines 167-178: the counter, the already-processed check, and the call
\* of scraper.fetch_tender_detail up to its first GET.
ProcessTenderStart(tender_id, force_update) ==
    /\ call.pc = "idle"
    /\ fetch.pc = "idle"
    /\ stats.total_processed < MaxCalls
    /\ LET st == [stats EXCEPT !.total_processed = @ + 1]
           c  == [ NoCall EXCEPT !.tender_id = tender_id,
                                 !.force_update = force_update,
                                 !.stats0 = stats,
                                 !.pt0 = processed_tenders ]
       IN  /\ stats' = st
           /\ IF AlreadyProcessed(tender_id, force_update, processed_tenders)
              THEN /\ last' = Finished(c, FALSE, "skip", Return(<<>>), st,
                                       processed_tenders)
                   /\ UNCHANGED <<call, fetch, session>>
              ELSE /\ call' = [c EXCEPT !.pc = "fetching"]
                   /\ session' = "open"
                   /\ fetch' = BeginFetch(tender_id)
                   /\ UNCHANGED last
    /\ UNCHANGED <<content_filter, write_preview, processed_tenders, store>>
    /\ UNCHANGED aux

\* No count of the rejected episodes.
FilteredCount_None(all, kept) == 0

\* Line 207, self.stats["filtered_content"] += 1 for every episode that is
\* not appended to filtered_episodes.
FilteredCount(all, kept) == Len(all) - Len(kept)

\* A stage of process_tender as it is executed, with the number of units it
\* is about (for a write, the index of the unit; 0 where there is none).
Stage(name, n) == [stage |-> name, n |-> n]

\* Lines 190-192: is_agency_allowed is evaluated when there is a filter and
\* an agency.
AgencyStages(cf, tender_data) ==
    IF cf # None /\ Truthy(tender_data.agency)
    THEN <<Stage("agency_check", 0)>> ELSE <<>>

\* Lines 201-208: is_content_safe is evaluated for every episode when there
\* is a filter.
UnitStages(cf, episodes) ==
    IF cf # None
    THEN [i \in 1 .. Len(episodes) |-> Stage("unit_check", i)] ELSE <<>>

\* A preview of every unit on its own.
PreviewStages_PerUnit(episodes) ==
    [i \in 1 .. Len(episodes) |-> Stage("preview", 1)]

\* Lines 223-226: preview_episodes and should_proceed, once, with the
\* filtered list.
PreviewStages(episodes) == <<Stage("preview", Len(episodes))>>

\* Lines 178-245: from the end of the fetch to the start of the commit.
ProcessTenderAfterFetch ==
    /\ call.pc = "fetching"
    /\ fetch.pc \in {"returned", "raised"}
    /\ fetch' = NoFetch
    /\ LET done(c, outcome, end, st) ==
               /\ last' = Finished(c, TRUE, outcome, end, st,
                                   processed_tenders)
               /\ stats' = st
               /\ call' = NoCall
           c0 == [call EXCEPT !.trace = <<Stage("fetch", 0)>>]
           ce == [call EXCEPT !.trace = <<Stage("fetch", 0),
                                          Stage("extract", 0)>>]
       IN  IF fetch.pc = "raised"
           THEN done(c0, "fetch_error", ExceptHandler("fetch"), stats)
           ELSE
           LET parsed == ParseTenderDetail(fetch.text[1])
           IN  IF parsed.error # "none"
           THEN done(ce, "extract_error", ExceptHandler(parsed.error), stats)
           ELSE
           LET data == parsed.data[1]
               cn   == [ce EXCEPT !.tender_data = Some(data)]
               c1   == [cn EXCEPT !.trace =
                                      @ \o AgencyStages(content_filter, data)]
           IN  IF NameAbsent(data)
               THEN done(cn, "no_name", Return(<<>>), stats)
               ELSE IF /\ content_filter # None
                       /\ Truthy(data.agency)
                       /\ ~IsAgencyAllowed(content_filter[1], data.agency[1])
               THEN done(c1, "agency", Return(<<>>),
                         [stats EXCEPT !.filtered_content = @ + 1])
               ELSE
               \E all \in {ConvertTenderDataToEpisodes(data)} :
               \E kept \in {IF content_filter # None
                            THEN FilterEpisodes(content_filter[1], all)
                            ELSE all} :
               LET st5  == [stats EXCEPT !.filtered_content =
                                             @ + FilteredCount(all, kept)]
                   ents == CreateTenderEntities(data)
                   c2   == [c1 EXCEPT !.trace =
                                          @ \o UnitStages(content_filter, all)
                                            \o PreviewStages(kept)]
               IN  IF ~ShouldProceed(write_preview, kept, ents)
                   THEN done([c2 EXCEPT !.episodes = kept], "preview",
                             Return(<<>>),
                             [st5 EXCEPT !.preview_rejected = @ + 1])
                   ELSE IF kept = <<>>
                   THEN done(c2, "empty", Return(<<>>), st5)
                   ELSE /\ call' = [c2 EXCEPT !.pc = "writing",
                                              !.episodes = kept,
                                              !.entities = ents,
                                              !.i = 1]
                        /\ stats' = st5
                        /\ UNCHANGED last
    /\ UNCHANGED <<content_filter, write_preview, processed_tenders, session,
                   store>>
    /\ UNCHANGED aux

\* Step 11, one iteration: add_episode for episode i, which returns (ok) or
\* raises an exception that is caught and logged.
WriteEpisode(ok) ==
    /\ call.pc = "writing"
    /\ call.i <= Len(call.episodes)
    /\ LET e  == call.episodes[call.i]
           op == AddEpisode(call.tender_id, "unit", e.title, e.content)
           n  == NextEpisodeIndex(call.i, Len(call.episodes), ok)
       IN  /\ store' = Received(store, op)
           /\ call' = [call EXCEPT
                         !.i = n,
                         !.successful_episodes = CountSuccess(@, ok),
                         !.log = Append(@, [op |-> op, ok |-> ok]),
                         !.trace = Append(@, Stage("write", call.i)),
                         !.pc = IF n > Len(call.episodes)
                                THEN "summary" ELSE "writing"]
    /\ UNCHANGED <<content_filter, write_preview, processed_tenders, stats,
                   session, fetch, last>>
    /\ UNCHANGED aux

\* Steps 12 to the return: the entity-summary episode, the statistics, the
\* processed set, the returned list.
WriteSummary(ok) ==
    /\ call.pc = "summary"
    /\ \E raw \in {EntitySummary(call.entities)} :
       \E write \in {/\ call.entities # <<>>
                     /\ \/ content_filter = None
                        \/ IsContentSafe(content_filter[1], raw).safe} :
       \E op \in {AddEpisode(call.tender_id, "summary",
                      SummaryNamePrefix
                          \o call.tender_data[1].tender_name[1],
                      IF content_filter # None /\ write
                      THEN CleanContent(raw) ELSE raw)} :
       \E checked \in {IF call.entities # <<>> /\ content_filter # None
                       THEN [call EXCEPT !.trace =
                                Append(@, Stage("summary_check", 0))]
                       ELSE call} :
       \E c \in {IF write
                 THEN [checked EXCEPT
                         !.successful_episodes = CountSuccess(@, ok),
                         !.log = Append(@, [op |-> op, ok |-> ok]),
                         !.trace = Append(@, Stage("write", 0))]
                 ELSE checked} :
       LET st    == UpdateStats(stats, c.successful_episodes)
           pt    == AddProcessed(processed_tenders, call.tender_id)
       IN  /\ store' = IF write THEN Received(store, op) ELSE store
           /\ stats' = st
           /\ processed_tenders' = pt
           /\ last' = Finished(c, TRUE, "committed",
                               ReturnEpisodes(call.episodes), st, pt)
           /\ call' = NoCall
    /\ UNCHANGED <<content_filter, write_preview, session, fetch>>
    /\ UNCHANGED aux

Next ==
    \/ \E agencies \in {{AgencyCity}} :
           ConfigureContentFilter(<<>>, agencies, None, None)
    \/ \E id \in TenderIds, force \in BOOLEAN : ProcessTenderStart(id, force)
    \/ \E page \in Pages : FetchAttempt("ok", page)
    \/ \E kind \in ResponseKinds \ {"ok"} : FetchAttempt(kind, EmptyPage)
    \/ ProcessTenderAfterFetch
    \/ \E ok \in BOOLEAN : WriteEpisode(ok)
    \/ \E ok \in BOOLEAN : WriteSummary(ok)

Spec == Init /\ [][Next]_vars

(* ---------------------------------------------------------------------- *)
(* C1 .. C8: process_tender                                               *)
(* ---------------------------------------------------------------------- *)

\* A step that ends a process_tender call: `last` is the call before it,
\* last' the call that ends.
CallEnds == last'.n # last.n

\* The two calls are consecutive calls for one identifier, both with
\* force_update=False.
SameIdTwice ==
    /\ CallEnds
    /\ last.n >= 1
    /\ last'.tender_id = last.tender_id
    /\ ~last.force_update
    /\ ~last'.force_update

\* The already-processed skip: no fetch, no write, an empty list.
IsSkip(rec) ==
    /\ rec.outcome = "skip"
    /\ ~rec.fetched
    /\ rec.log = <<>>
    /\ ~rec.raised
    /\ rec.result = <<>>

\* The write of unit `e` as the store receives it from a call for `id`.
UnitOp(id, e) == AddEpisode(id, "unit", e.title, e.content)

\* The entries of a call's write log that are unit writes.
UnitLog(log) == SelectSeq(log, LAMBDA w : w.op.kind = "unit")

\* How many add operations the store received for the unit with this title
\* and this content.
RECURSIVE SumCopies(_, _)
SumCopies(bag, ops) ==
    IF ops = {} THEN 0
    ELSE LET op == CHOOSE o \in ops : TRUE
         IN  CopiesIn(op, bag) + SumCopies(bag, ops \ {op})

UnitWrites(name, body) ==
    SumCopies(store, {o \in BagToSet(store) :
                         o.kind = "unit" /\ o.name = name
                                         /\ o.episode_body = body})

NameFieldAbsent(rec) ==
    /\ rec.parsed
    /\ rec.name = None \/ rec.name = Some(<<>>)

\* C5: a call whose extracted field map has an absent case name (None or
\* empty) returns the empty list without raising, passes nothing to the
\* store, increments total_processed by one and leaves successful_writes
\* (and the processed set) as they were.
C5_AbsentNameSkipped ==
    /\ [](NameFieldAbsent(last) =>
             /\ last.outcome = "no_name"
             /\ ~last.raised
             /\ last.result = <<>>
             /\ last.log = <<>>
             /\ last.stats1 =
                    [last.stats0 EXCEPT !.total_processed = @ + 1]
             /\ last.pt1 = last.pt0)
    /\ [][ (CallEnds /\ NameFieldAbsent(last')) => store' = store ]_vars

\* C5 witness: a call that found an empty case name.
C5_EmptyNameSeen ==
    /\ NameFieldAbsent(last)
    /\ last.name = Some(<<>>)
    /\ last.stats1.total_processed = 1

\* The call ended with a fetch failure or an extraction error.
IsError(outcome) == outcome \in {"fetch_error", "extract_error"}

\* C6 as the specification states it: a fetch failure or an extraction
\* error is not propagated to the caller of process_tender.
C6_ErrorNotPropagated ==
    IsError(last.outcome) => ~last.raised

\* C6, amended: on a fetch failure (retries exhausted) or an extraction
\* error process_tender logs and re-raises the exception to its caller; it
\* passes nothing to the store, changes no counter but total_processed and
\* does not record the identifier, and it leaves the orchestrator idle, so
\* that a caller that catches the exception can go on with other
\* identifiers.
C6_ErrorReRaised ==
    /\ [](IsError(last.outcome) =>
             /\ last.raised
             /\ last.fetched
             /\ last.log = <<>>
             /\ last.stats1 =
                    [last.stats0 EXCEPT !.total_processed = @ + 1]
             /\ last.pt1 = last.pt0)
    /\ [][ (CallEnds /\ IsError(last'.outcome)) =>
              /\ store' = store
              /\ processed_tenders' = processed_tenders
              /\ call' = NoCall
              /\ fetch' = NoFetch ]_vars

\* C6 witness: a call for another identifier that committed after a call
\* that raised.
C6_CommittedAfterError ==
    /\ IsError(last.prev)
    /\ last.outcome = "committed"
    /\ last.tender_id = "T-002"
    /\ last.pt1 = {"T-002"}
    /\ last.result # <<>>

UnitWriteFails ==
    /\ call.pc = "writing"
    /\ Len(call'.log) = Len(call.log) + 1
    /\ ~call'.log[Len(call'.log)].ok

FetchTenderDetail(tender_id) ==
    /\ call.pc = "idle"
    /\ fetch.pc = "idle"
    /\ session' = "open"
    /\ fetch' = BeginFetch(tender_id)
    /\ UNCHANGED <<content_filter, write_preview, processed_tenders, stats,
                   call, store, last>>
    /\ UNCHANGED aux

\* The awaiting caller gets the text or the exception of _fetch.
FetchResult ==
    /\ call.pc = "idle"
    /\ fetch.pc \in {"returned", "raised"}
    /\ fetch' = NoFetch
    /\ UNCHANGED <<content_filter, write_preview, processed_tenders, stats,
                   session, call, store, last>>
    /\ UNCHANGED aux

\* TenderScraper.close
ScraperClose ==
    /\ call.pc = "idle"
    /\ fetch.pc = "idle"
    /\ session = "open"
    /\ session' = "None"
    /\ UNCHANGED <<content_filter, write_preview, processed_tenders, stats,
                   fetch, call, store, last>>
    /\ UNCHANGED aux

\* Any iteration of the retry loop.
FetchStep ==
    \/ \E page \in Pages : FetchAttempt("ok", page)
    \/ \E kind \in ResponseKinds \ {"ok"} : FetchAttempt(kind, EmptyPage)

NextFetch ==
    \/ \E id \in TenderIds : FetchTenderDetail(id)
    \/ \E page \in Pages : FetchAttempt("ok", page)
    \/ \E kind \in ResponseKinds \ {"ok"} : FetchAttempt(kind, EmptyPage)
    \/ FetchResult
    \/ ScraperClose

\* The event loop resumes the coroutine of _fetch: the session's
\* ClientTimeout(total=30) ends every GET and every asyncio.sleep is finite,
\* so an iteration that can run does run.
SpecFetch == Init /\ [][NextFetch]_vars /\ WF_vars(FetchStep)

(* ---------------------------------------------------------------------- *)
(* tender_demo.main                                                       *)
(* ---------------------------------------------------------------------- *)

\* Lines 30-43: the Graphiti client, build_indices_and_constraints (which
\* returns, or raises into the except clause before a processor exists) and
\* TenderProcessor(client) with its defaults.
DemoStart(ok) ==
    /\ run.pc = "none"
    /\ call.pc = "idle"
    /\ fetch.pc = "idle"
    /\ stats.total_processed = 0
    /\ run' = [run EXCEPT !.pc = IF ok THEN "process" ELSE "finally",
                          !.client = "open"]
    /\ UNCHANGED <<content_filter, write_preview, processed_tenders, stats,
                   session, fetch, call, store, last, probe, graph, job,
                   tasks, sample>>

\* Line 44: episodes = await processor.process_tender(tender_id)
DemoProcessTender(tender_id) ==
    /\ run.pc = "process"
    /\ stats.total_processed = 0
    /\ ProcessTenderStart(tender_id, FALSE)

\* Line 44 when the call is over: on with the try block, or into the except
\* clause with the exception process_tender raised.
DemoAfterProcess ==
    /\ run.pc = "process"
    /\ call.pc = "idle"
    /\ last.n = 1
    /\ run' = [run EXCEPT !.pc = IF last.raised THEN "finally" ELSE "search"]
    /\ UNCHANGED <<content_filter, write_preview, processed_tenders, stats,
                   session, fetch, call, store, last, probe, graph, job,
                   tasks, sample>>

\* Lines 49-55: client.search and the loop over its results; an exception
\* goes to the except clause.
DemoSearch(ok) ==
    /\ run.pc = "search"
    /\ run' = [run EXCEPT !.pc = IF ok THEN "close" ELSE "finally"]
    /\ UNCHANGED <<content_filter, write_preview, processed_tenders, stats,
                   session, fetch, call, store, last, probe, graph, job,
                   tasks, sample>>

\* Line 58: await processor.close(), that is TenderProcessor.close and in it
\* TenderScraper.close: the session, if there is one, is closed and set to
\* None; then print_stats.
DemoClose ==
    /\ run.pc = "close"
    /\ session' = "None"
    /\ run' = [run EXCEPT !.pc = "finally", !.printed = TRUE]
    /\ UNCHANGED <<content_filter, write_preview, processed_tenders, stats,
                   fetch, call, store, last, probe, graph, job,
                   tasks, sample>>

\* Lines 60-63: the except clause logs; finally: await client.close().
DemoFinally ==
    /\ run.pc = "finally"
    /\ run' = [run EXCEPT !.pc = "ended", !.client = "closed"]
    /\ UNCHANGED <<content_filter, write_preview, processed_tenders, stats,
                   session, fetch, call, store, last, probe, graph, job,
                   tasks, sample>>

\* TenderProcessor(client): enable_content_filter defaults to True.
InitDemo == Init /\ content_filter # None

NextDemo ==
    \/ \E ok \in BOOLEAN : DemoStart(ok)
    \/ \E id \in TenderIds : DemoProcessTender(id)
    \/ \E page \in Pages : FetchAttempt("ok", page)
    \/ \E kind \in ResponseKinds \ {"ok"} : FetchAttempt(kind, EmptyPage)
    \/ ProcessTenderAfterFetch
    \/ \E ok \in BOOLEAN : WriteEpisode(ok)
    \/ \E ok \in BOOLEAN : WriteSummary(ok)
    \/ DemoAfterProcess
    \/ \E ok \in BOOLEAN : DemoSearch(ok)
    \/ DemoClose
    \/ DemoFinally

SpecDemo == InitDemo /\ [][NextDemo]_vars

\* C11: a run that created a TenderProcessor has, when it has ended, closed
\* and cleared the scraper's session.
C11_SessionReleasedAtEnd ==
    run.pc = "ended" => session = "None"

\* C21: a run over an identifier has, when it has ended, printed the final
\* statistics report (TenderProcessor.close, print_stats), whether or not
\* the identifier failed or the run was aborted by an error.
C21_StatsPrintedAtEnd ==
    (run.pc = "ended" /\ stats.total_processed > 0) => run.printed

(* ---------------------------------------------------------------------- *)
(* process_tender calls as concurrent asyncio tasks                       *)
(* ---------------------------------------------------------------------- *)

\* The pages served to the tasks.
TaskPages == {PageGood, PageNoAgency, PageBlank}

\* An except clause that catches every exception.
Catches_All(exc) == TRUE

\* except Exception: asyncio.CancelledError derives from BaseException and
\* is not caught.
Catches(exc) == exc # "CancelledError"

\* The field map of the page the task fetched.
TaskData(task) == ParseTenderDetail(task.text[1]).data[1]

\* Step 12: whether the entity-summary episode is written.
SummaryWritten(cf, entities) ==
    /\ entities # <<>>
    /\ \/ cf = None
       \/ IsContentSafe(cf[1], EntitySummary(entities)).safe

\* The add_episode operation of the entity summary.
SummaryOp(cf, tender_id, tender_data) ==
    LET raw == EntitySummary(CreateTenderEntities(tender_data))
    IN  AddEpisode(tender_id, "summary",
                   SummaryNamePrefix \o tender_data.tender_name[1],
                   IF cf # None THEN CleanContent(raw) ELSE raw)

\* Lines 167-178 in a task: the counter, the already-processed check, and
\* the task suspended in the first GET.
TaskStart(t, tender_id) ==
    /\ tasks[t].pc = "idle"
    /\ call.pc = "idle"
    /\ fetch.pc = "idle"
    /\ stats' = [stats EXCEPT !.total_processed = @ + 1]
    /\ IF AlreadyProcessed(tender_id, FALSE, processed_tenders)
       THEN /\ tasks' = [tasks EXCEPT ![t].pc = "returned",
                                      ![t].tender_id = tender_id]
            /\ UNCHANGED session
       ELSE /\ tasks' = [tasks EXCEPT ![t].pc = "get",
                                      ![t].tender_id = tender_id,
                                      ![t].attempt = 1]
            /\ session' = "open"
    /\ UNCHANGED <<content_filter, write_preview, processed_tenders, fetch,
                   call, store, last, probe, run, graph, job, sample>>

\* The GET of the task's attempt ends: with status 200 and the body read
\* the task goes on to the jitter sleep, otherwise to the backoff sleep.
TaskGet(t, kind, page) ==
    /\ tasks[t].pc = "get"
    /\ tasks' = IF kind = "ok"
                THEN [tasks EXCEPT ![t].pc = "jitter",
                                   ![t].text = Some(page)]
                ELSE [tasks EXCEPT ![t].pc = "backoff"]
    /\ UNCHANGED <<content_filter, write_preview, processed_tenders, stats,
                   session, fetch, call, store, last, probe, run, graph, job,
                   sample>>

\* The backoff sleep of the task ends: the next attempt, or the raise after
\* the last one, which process_tender logs and re-raises.
TaskBackoff(t) ==
    /\ tasks[t].pc = "backoff"
    /\ tasks' = IF HasNextAttempt(tasks[t].attempt)
                THEN [tasks EXCEPT ![t].pc = "get",
                                   ![t].attempt = @ + 1,
                                   ![t].text = None]
                ELSE [tasks EXCEPT ![t].pc = "raised", ![t].text = None]
    /\ UNCHANGED <<content_filter, write_preview, processed_tenders, stats,
                   session, fetch, call, store, last, probe, run, graph, job,
                   sample>>

\* The jitter sleep ends and _fetch returns: lines 181-251 without a
\* suspension, up to an early return, a raise, or the task suspended in the
\* add_episode call of the first episode.
TaskJitter(t) ==
    /\ tasks[t].pc = "jitter"
    /\ LET end(pc, st) ==
               /\ tasks' = [tasks EXCEPT ![t].pc = pc]
               /\ stats' = st
           parsed == ParseTenderDetail(tasks[t].text[1])
       IN  IF parsed.error # "none"
           THEN end("raised", stats)
           ELSE
           LET data == parsed.data[1]
           IN  IF NameAbsent(data)
               THEN end("returned", stats)
               ELSE IF /\ content_filter # None
                       /\ Truthy(data.agency)
                       /\ ~IsAgencyAllowed(content_filter[1], data.agency[1])
               THEN end("returned",
                        [stats EXCEPT !.filtered_content = @ + 1])
               ELSE
               \E all \in {ConvertTenderDataToEpisodes(data)} :
               \E kept \in {IF content_filter # None
                            THEN FilterEpisodes(content_filter[1], all)
                            ELSE all} :
               LET st5 == [stats EXCEPT !.filtered_content =
                                            @ + FilteredCount(all, kept)]
               IN  IF ~ShouldProceed(write_preview, kept,
                                     CreateTenderEntities(data))
                   THEN end("returned",
                            [st5 EXCEPT !.preview_rejected = @ + 1])
                   ELSE IF kept = <<>>
                   THEN end("returned", st5)
                   ELSE /\ tasks' = [tasks EXCEPT ![t].pc = "write",
                                                  ![t].episodes = kept,
                                                  ![t].i = 1,
                                                  ![t].issued = 1]
                        /\ stats' = st5
    /\ UNCHANGED <<content_filter, write_preview, processed_tenders, session,
                   fetch, call, store, last, probe, run, graph, job, sample>>

\* Lines 293-301 in a task: the statistics, the processed set, the return.
TaskCommitted(t, successful_episodes) ==
    /\ stats' = UpdateStats(stats, successful_episodes)
    /\ processed_tenders' = AddProcessed(processed_tenders,
                                         tasks[t].tender_id)

\* The task after the add_episode call of episode i is over (it returned,
\* raised, or was cancelled with the exception caught): suspended in the
\* call for the next episode, or in the call for the entity summary, or
\* through to the return when no summary is written.
TaskAfterEpisode(t, successful_episodes) ==
    LET task == tasks[t]
    IN  IF task.i < Len(task.episodes)
        THEN /\ tasks' = [tasks EXCEPT
                            ![t].i = @ + 1,
                            ![t].issued = @ + 1,
                            ![t].successful_episodes = successful_episodes]
             /\ UNCHANGED <<stats, processed_tenders>>
        ELSE IF SummaryWritten(content_filter,
                               CreateTenderEntities(TaskData(task)))
        THEN /\ tasks' = [tasks EXCEPT
                            ![t].pc = "summary",
                            ![t].issued = @ + 1,
                            ![t].successful_episodes = successful_episodes]
             /\ UNCHANGED <<stats, processed_tenders>>
        ELSE /\ tasks' = [tasks EXCEPT
                            ![t].pc = "returned",
                            ![t].successful_episodes = successful_episodes]
             /\ TaskCommitted(t, successful_episodes)

\* The add_episode call of episode i returns (ok) or raises an exception
\* that is caught and logged.
TaskWrite(t, ok) ==
    /\ tasks[t].pc = "write"
    /\ LET e == tasks[t].episodes[tasks[t].i]
       IN  store' = Received(store, AddEpisode(tasks[t].tender_id, "unit",
                                               e.title, e.content))
    /\ TaskAfterEpisode(t, CountSuccess(tasks[t].successful_episodes, ok))
    /\ UNCHANGED <<content_filter, write_preview, session, fetch, call, last,
                   probe, run, graph, job, sample>>

\* The add_episode call of the entity summary returns (ok) or raises an
\* exception that is caught and logged; then lines 293-301.
TaskSummary(t, ok) ==
    /\ tasks[t].pc = "summary"
    /\ store' = Received(store, SummaryOp(content_filter, tasks[t].tender_id,
                                          TaskData(tasks[t])))
    /\ \E n \in {CountSuccess(tasks[t].successful_episodes, ok)} :
           /\ tasks' = [tasks EXCEPT ![t].pc = "returned",
                                     ![t].successful_episodes = n]
           /\ TaskCommitted(t, n)
    /\ UNCHANGED <<content_filter, write_preview, session, fetch, call, last,
                   probe, run, graph, job, sample>>

\* The store after a write that was in flight when its caller was
\* cancelled: the store got the operation, or it did not.
InFlight(bag, op, received) == IF received THEN Received(bag, op) ELSE bag

\* task.cancel() while the task is suspended: CancelledError is raised at
\* the await.  In the GET and in the jitter sleep that is inside the try of
\* _fetch (lines 34-45), in the backoff sleep outside it (line 46); in an
\* add_episode call it is inside the try of that write (250-262, 266-291).
\* The except clause of process_tender (303-305) re-raises what reaches it.
TaskCancel(t, received) ==
    /\ tasks[t].pc \in {"get", "jitter", "backoff", "write", "summary"}
    /\ LET task      == tasks[t]
           cancelled == [tasks EXCEPT ![t].pc = "cancelled",
                                      ![t].cancels = @ + 1]
           counted   == [tasks EXCEPT ![t].cancels = @ + 1]
       IN  CASE task.pc \in {"get", "jitter"} ->
                  /\ tasks' = IF Catches("CancelledError")
                              THEN [counted EXCEPT ![t].pc = "backoff",
                                                   ![t].text = None]
                              ELSE cancelled
                  /\ UNCHANGED <<stats, processed_tenders, store>>
             [] task.pc = "backoff" ->
                  /\ tasks' = cancelled
                  /\ UNCHANGED <<stats, processed_tenders, store>>
             [] task.pc = "write" ->
                  /\ LET e == task.episodes[task.i]
                     IN  store' = InFlight(store,
                                      AddEpisode(task.tender_id, "unit",
                                                 e.title, e.content),
                                      received)
                  /\ IF Catches("CancelledError")
                     THEN \E next \in {[tasks EXCEPT ![t].cancels = @ + 1]} :
                          LET after == next[t]
                          IN  IF after.i < Len(after.episodes)
                              THEN /\ tasks' = [next EXCEPT
                                                  ![t].i = @ + 1,
                                                  ![t].issued = @ + 1]
                                   /\ UNCHANGED <<stats, processed_tenders>>
                              ELSE /\ tasks' = [next EXCEPT
                                                  ![t].pc = "summary",
                                                  ![t].issued = @ + 1]
                                   /\ UNCHANGED <<stats, processed_tenders>>
                     ELSE /\ tasks' = cancelled
                          /\ UNCHANGED <<stats, processed_tenders>>
             [] task.pc = "summary" ->
                  /\ store' = InFlight(store,
                                  SummaryOp(content_filter, task.tender_id,
                                            TaskData(task)),
                                  received)
                  /\ IF Catches("CancelledError")
                     THEN /\ tasks' = [counted EXCEPT ![t].pc = "returned"]
                          /\ TaskCommitted(t, task.successful_episodes)
                     ELSE /\ tasks' = cancelled
                          /\ UNCHANGED <<stats, processed_tenders>>
    /\ UNCHANGED <<content_filter, write_preview, session, fetch, call, last,
                   probe, run, graph, job, sample>>

InitTasks == Init /\ content_filter # None

NextTasks ==
    \/ \E t \in TaskIds, id \in TenderIds : TaskStart(t, id)
    \/ \E t \in TaskIds, page \in TaskPages : TaskGet(t, "ok", page)
    \/ \E t \in TaskIds, kind \in ResponseKinds \ {"ok"} :
           TaskGet(t, kind, EmptyPage)
    \/ \E t \in TaskIds : TaskBackoff(t)
    \/ \E t \in TaskIds : TaskJitter(t)
    \/ \E t \in TaskIds, ok \in BOOLEAN : TaskWrite(t, ok)
    \/ \E t \in TaskIds, ok \in BOOLEAN : TaskSummary(t, ok)
    \/ \E t \in TaskIds, received \in BOOLEAN : TaskCancel(t, received)

SpecTasks == InitTasks /\ [][NextTasks]_vars

(* ---------------------------------------------------------------------- *)
(* ContentFilter on its own                                               *)
(* ---------------------------------------------------------------------- *)

\* The strings the filter is called with: an upper-case letter, a blank and a
\* character outside the allow-set, in every order.
Alphabet == {"E", " ", "@"}

Contents == UNION {[1 .. n -> Alphabet] : n \in 0 .. MaxLen}

\* Keywords for configure_content_filter, one in lower case and one with an
\* upper-case letter.
KeywordLower == <<"e">>
KeywordMixed == <<"E">>

\* content_filter.is_content_safe(content)
IsContentSafeCall(content) ==
    /\ call.pc = "idle"
    /\ probe.fn = "none"
    /\ content_filter # None
    /\ probe' = [ fn |-> "is_content_safe", arg |-> content,
                  out |-> IsContentSafe(content_filter[1], content),
                  again |-> None ]
    /\ UNCHANGED <<content_filter, write_preview, processed_tenders, stats,
                   session, fetch, call, store, last, run, graph, job,
                   tasks, sample>>

\* content_filter.clean_content(content)
CleanContentCall(content) ==
    /\ call.pc = "idle"
    /\ probe.fn = "none"
    /\ content_filter # None
    /\ probe' = [ fn |-> "clean_content", arg |-> content,
                  out |-> CleanContent(content), again |-> None ]
    /\ UNCHANGED <<content_filter, write_preview, processed_tenders, stats,
                   session, fetch, call, store, last, run, graph, job,
                   tasks, sample>>

\* content_filter.clean_content(cleaned) on the result of the call before.
CleanContentAgain ==
    /\ probe.fn = "clean_content"
    /\ probe.again = None
    /\ probe' = [probe EXCEPT !.again = Some(CleanContent(probe.out))]
    /\ UNCHANGED <<content_filter, write_preview, processed_tenders, stats,
                   session, fetch, call, store, last, run, graph, job,
                   tasks, sample>>

InitFilter == Init /\ content_filter # None

NextFilter ==
    \/ \E kws \in {<<>>, <<KeywordLower>>, <<KeywordMixed>>},
          limits \in {<<None, None>>, <<Some(3), Some(4)>>} :
           ConfigureContentFilter(kws, {}, limits[1], limits[2])
    \/ \E content \in Contents : IsContentSafeCall(content)
    \/ \E content \in Contents : CleanContentCall(content)
    \/ CleanContentAgain

SpecFilter == InitFilter /\ [][NextFilter]_vars

(* ---------------------------------------------------------------------- *)
(* main.py: Episode, the duplicate lookup, process_episodes_batch         *)
(* ---------------------------------------------------------------------- *)

\* The units main.py is run on.  UnitA and UnitB have the same title and
\* different contents, UnitC and UnitD have different titles.
TextBuyA == <<"b", "u", "y", " ", "2", "0", "3", "3", "1", " ", "P", "C", "s">>
TextBuyB == <<"b", "u", "y", " ", "6", "7", "7", "5", "8", " ", "P", "C", "s">>
TextBuyC == <<"b", "u", "y", " ", "1", "0", "7", "1", "5", " ", "P", "C", "s">>
TextBuyD == <<"b", "u", "y", " ", "1", "1", "9", "6", "2", " ", "P", "C", "s">>

UnitA == Episode(TitleScope, TextBuyA)
UnitB == Episode(TitleScope, TextBuyB)
UnitC == Episode(TitleScope, TextBuyC)
UnitD == Episode(TitleNotes, TextBuyD)

\* The input lists of process_episodes_batch.
Batches ==
    { <<>>, <<UnitA>>, <<UnitB>>, <<UnitA, UnitB>>, <<UnitC, UnitD>>,
      <<UnitD, UnitC, UnitD>> }

\* content_for_hash = f"{self.title}:{self.content}"
ContentForHash(e) == e.title \o <<":">> \o e.content

\* hashlib.md5(s.encode('utf-8')).hexdigest()[:8]: the first eight hex digits
\* of the MD5 digest of the UTF-8 bytes, as hashlib computes them for the
\* strings the units above give.
Md5Hex8(s) ==
    CASE s = ContentForHash(UnitA) -> <<"5", "e", "9", "e", "7", "f", "6", "2">>
      [] s = ContentForHash(UnitB) -> <<"5", "e", "9", "e", "7", "f", "6", "2">>
      [] s = ContentForHash(UnitC) -> <<"2", "0", "7", "e", "8", "4", "e", "e">>
      [] s = ContentForHash(UnitD) -> <<"2", "0", "7", "e", "8", "4", "e", "e">>

\* Episode.get_content_hash
GetContentHash(e) == Md5Hex8(ContentForHash(e))

\* The hash alone, without the title.
GetUniqueName_HashOnly(e) == GetContentHash(e)

\* Episode.get_unique_name
GetUniqueName(e) == e.title \o <<"_">> \o GetContentHash(e)

\* A lookup that reports a duplicate when the query fails.
CheckEpisodeExistsByName_FailClosed(g, episode_name, answered) ==
    IF answered THEN CopiesIn(episode_name, g) > 0 ELSE TRUE

\* A lookup that never reports a duplicate.
CheckEpisodeExistsByName_Never(g, episode_name, answered) == FALSE

\* check_episode_exists_by_name: count > 0 when the query is answered, False
\* when it raises.
CheckEpisodeExistsByName(g, episode_name, answered) ==
    IF answered THEN CopiesIn(episode_name, g) > 0 ELSE FALSE

\* Lines 112-121, the loop over the input with seen_titles.
RECURSIVE LocalDedup(_, _, _)
LocalDedup(episodes, unique_episodes, seen_titles) ==
    IF episodes = <<>>
    THEN unique_episodes
    ELSE LET episode == Head(episodes)
         IN  IF episode.title \notin seen_titles
             THEN LocalDedup(Tail(episodes),
                             Append(unique_episodes, episode),
                             seen_titles \cup {episode.title})
             ELSE LocalDedup(Tail(episodes), unique_episodes, seen_titles)

\* No local deduplication.
UniqueEpisodes_All(episodes) == episodes

\* unique_episodes after the loop of lines 112-121.
UniqueEpisodes(episodes) == LocalDedup(episodes, <<>>, {})

MaxBatches == 2

\* process_episodes_batch up to its second loop: the counters, the local
\* deduplication and its count of skipped units.
ProcessEpisodesBatch(episodes) ==
    /\ job.pc \in {"idle", "returned"}
    /\ job.n < MaxBatches
    /\ \E unique \in {UniqueEpisodes(episodes)} :
           job' = [ NoJob EXCEPT
                      !.pc = IF unique = <<>> THEN "returned" ELSE "adding",
                      !.n = job.n + 1,
                      !.episodes = episodes,
                      !.unique_episodes = unique,
                      !.i = 1,
                      !.stats.skipped = Len(episodes) - Len(unique),
                      !.prev = IF job.pc = "returned"
                               THEN Some([ episodes |-> job.episodes,
                                           log |-> job.log ])
                               ELSE None ]
    /\ UNCHANGED <<content_filter, write_preview, processed_tenders, stats,
                   session, fetch, call, store, last, probe, run, graph,
                   tasks, sample>>

\* A handler that logs a failed write and counts nothing.
CountEpisode_ErrorsDropped(st, exists, ok) ==
    IF exists THEN [st EXCEPT !.skipped = @ + 1]
    ELSE IF ok THEN [st EXCEPT !.new_added = @ + 1,
                               !.total_processed = @ + 1]
    ELSE st

\* The counters of add_episode_if_not_exists: skipped for a unit found in
\* the store (82), new_added and total_processed after add_episode returned
\* (95-96), skipped in the handler when it raised (98-100).
CountEpisode(st, exists, ok) ==
    IF exists THEN [st EXCEPT !.skipped = @ + 1]
    ELSE IF ok THEN [st EXCEPT !.new_added = @ + 1,
                               !.total_processed = @ + 1]
    ELSE [st EXCEPT !.skipped = @ + 1]

\* One iteration of the second loop: add_episode_if_not_exists for
\* unique_episodes[i].  The query of the lookup is answered or raises; the
\* add_episode call returns (ok) or raises.
AddEpisodeIfNotExists(answered, ok) ==
    /\ job.pc = "adding"
    /\ LET episode == job.unique_episodes[job.i]
       IN  \E unique_name \in {GetUniqueName(episode)} :
           \E exists \in {CheckEpisodeExistsByName(graph, unique_name,
                                                   answered)} :
           LET added == ~exists /\ ok
               entry == [ episode |-> episode, name |-> unique_name,
                          answered |-> answered,
                          present |-> CopiesIn(unique_name, graph) > 0,
                          exists |-> exists, attempted |-> ~exists,
                          added |-> added ]
           IN  /\ graph' = IF added
                           THEN graph (+) SetToBag({unique_name})
                           ELSE graph
               /\ job' = [ job EXCEPT
                             !.log = Append(@, entry),
                             !.i = @ + 1,
                             !.stats = CountEpisode(@, exists, ok),
                             !.pc = IF job.i + 1 > Len(job.unique_episodes)
                                    THEN "returned" ELSE "adding" ]
    /\ UNCHANGED <<content_filter, write_preview, processed_tenders, stats,
                   session, fetch, call, store, last, probe, run,
                   tasks, sample>>

InitBatch == Init /\ content_filter = None

NextBatch ==
    \/ \E episodes \in Batches : ProcessEpisodesBatch(episodes)
    \/ \E answered \in BOOLEAN, ok \in BOOLEAN :
           AddEpisodeIfNotExists(answered, ok)

SpecBatch == InitBatch /\ [][NextBatch]_vars

(* ---------------------------------------------------------------------- *)
(* C12 .. C14: ContentFilter                                              *)
(* ---------------------------------------------------------------------- *)

\* The filter of an is_content_safe call and the content it was given.
Checked == probe.fn = "is_content_safe"

\* No keyword of the list occurs in the content under case folding.
FreeOfKeywords(cf, content) ==
    \A i \in DOMAIN cf.blacklist_keywords :
        ~Contains(Lower(content), Lower(cf.blacklist_keywords[i]))

\* C12 as the specification states it: a content free of blacklisted terms
\* is accepted at length min_content_length and at length
\* max_content_length, rejected as too short at min_content_length - 1 and
\* as too long at max_content_length + 1.
C12_BoundaryByLength ==
    (Checked /\ FreeOfKeywords(content_filter[1], probe.arg)) =>
        LET cf == content_filter[1]
            n  == Len(probe.arg)
        IN  /\ (n = cf.min_content_length /\ n <= cf.max_content_length)
                   => probe.out.safe
            /\ (n = cf.max_content_length /\ n >= cf.min_content_length)
                   => probe.out.safe
            /\ n = cf.min_content_length - 1
                   => probe.out.reason = "too_short"
            /\ n = cf.max_content_length + 1
                   => probe.out.reason = "too_long"

\* C12, amended: the lower limit is on the length of the content without its
\* leading and trailing whitespace, the upper limit on the length of the
\* content as given, and the lower limit is tested first.  A content free
\* of blacklisted terms is rejected as too short when it is empty or its
\* stripped length is below min_content_length (so at stripped length
\* min_content_length - 1, and at length min_content_length with a blank at
\* an end); otherwise it is rejected as too long when its length is above
\* max_content_length (so at max_content_length + 1); otherwise it is
\* accepted (so at stripped length min_content_length and at length
\* max_content_length).
C12_BoundaryByStrippedLength ==
    (Checked /\ FreeOfKeywords(content_filter[1], probe.arg)) =>
        LET cf == content_filter[1]
            n  == Len(probe.arg)
            m  == Len(Strip(probe.arg))
        IN  /\ (n = 0 \/ m <= cf.min_content_length - 1)
                   <=> probe.out.reason = "too_short"
            /\ (n > 0 /\ m >= cf.min_content_length
                      /\ n >= cf.max_content_length + 1)
                   <=> probe.out.reason = "too_long"
            /\ (n > 0 /\ m >= cf.min_content_length
                      /\ n <= cf.max_content_length)
                   <=> probe.out.safe

\* C12 witness: a content of exactly min_content_length characters, the last
\* one a blank, rejected as too short.
C12_RejectedAtMinLength ==
    /\ Checked
    /\ content_filter[1].min_content_length = 3
    /\ probe.arg = <<"E", "@", " ">>
    /\ probe.out.reason = "too_short"

\* C13: a content within the length limits that contains a keyword of the
\* list under case folding is rejected as blacklisted, whatever the letter
\* case the keyword was configured in.
C13_CaseInsensitiveMatch ==
    Checked =>
        LET cf == content_filter[1]
        IN  (/\ ~TooShort(cf, probe.arg)
             /\ ~TooLong(cf, probe.arg)
             /\ ~FreeOfKeywords(cf, probe.arg))
                => /\ ~probe.out.safe
                   /\ probe.out.reason = "blacklisted"

\* Two whitespace characters in a row.
DoubleWhitespace(s) ==
    \E i \in 1 .. (Len(s) - 1) : s[i] \in Whitespace /\ s[i + 1] \in Whitespace

\* C14: the output of clean_content has no two consecutive whitespace
\* characters and no character outside the allow-set, and cleaning it again
\* changes nothing.
C14_CleanIsNormalForm ==
    probe.fn = "clean_content" =>
        /\ ~DoubleWhitespace(probe.out)
        /\ \A i \in DOMAIN probe.out : probe.out[i] \in AllowedChars
        /\ probe.again # None => probe.again = Some(probe.out)

(* ---------------------------------------------------------------------- *)
(* TenderParser on its own                                                *)
(* ---------------------------------------------------------------------- *)

\* The inputs of parse_tender_detail: the blank input, an input without any
\* text, and the inputs with some text on which each locator finds a cell
\* with text, a cell without text, or nothing.
Cell(text) == {None, Some(<<>>), Some(text)}

Htmls ==
    {PageBlank, PageNoText}
    \cup { [ EmptyPage EXCEPT !.td_name = f[1], !.h1 = f[2], !.agency = f[3],
                              !.budget = f[4], !.award_amount = f[5],
                              !.open_date = f[6] ] :
             f \in Cell(NameLabPCs) \X {None, Some(NameLabPCs)}
                   \X Cell(AgencyCity) \X {None, Some(BudgetText)}
                   \X {None, Some(BudgetText)} \X {None, Some(BudgetText)} }

\* parser.parse_tender_detail(html)
ParseTenderDetailCall(html) ==
    /\ call.pc = "idle"
    /\ probe.fn = "none"
    /\ probe' = [ fn |-> "parse_tender_detail", arg |-> html,
                  out |-> ParseTenderDetail(html), again |-> None ]
    /\ UNCHANGED <<content_filter, write_preview, processed_tenders, stats,
                   session, fetch, call, store, last, run, graph, job,
                   tasks, sample>>

InitParse == Init /\ content_filter # None

NextParse == \E html \in Htmls : ParseTenderDetailCall(html)

SpecParse == InitParse /\ [][NextParse]_vars

\* The call of parse_tender_detail that was made.
Parsed == probe.fn = "parse_tender_detail"

\* C22: parse_tender_detail raises TenderDataError for a blank input and
\* ParsingError for a non-blank input without extractable text; for every
\* input with some text it returns a field map in which each field whose
\* locators match nothing is None, also when that is every field.
C22_ParserErrorContract ==
    Parsed =>
        LET html == probe.arg
            out  == probe.out
        IN  /\ html.blank => out.error = "TenderDataError" /\ out.data = None
            /\ (~html.blank /\ ~html.text)
                   => out.error = "ParsingError" /\ out.data = None
            /\ (~html.blank /\ html.text) =>
                   /\ out.error = "none"
                   /\ out.data # None
                   /\ (html.td_name = None /\ html.h1 = None)
                          => out.data[1].tender_name = None
                   /\ html.agency = None => out.data[1].agency = None
                   /\ html.budget = None => out.data[1].budget = None
                   /\ html.award_amount = None
                          => out.data[1].award_amount = None
                   /\ html.open_date = None => out.data[1].open_date = None

\* C22 witness: an input with text on which no locator matches, returned as
\* a field map of None only.
C22_AllAbsentReturned ==
    /\ Parsed
    /\ probe.arg = EmptyPage
    /\ probe.out.error = "none"
    /\ probe.out.data[1].tender_name = None
    /\ probe.out.data[1].agency = None
    /\ probe.out.data[1].budget = None
    /\ probe.out.data[1].award_amount = None
    /\ probe.out.data[1].open_date = None

(* ---------------------------------------------------------------------- *)
(* C15: the agency gate of process_tender                                 *)
(* ---------------------------------------------------------------------- *)

\* The last call got a field map with a case name, and the source's agency
\* is not a member of the non-empty allow-list.
AgencyNotListed ==
    /\ last.parsed
    /\ ~NameFieldAbsent(last)
    /\ content_filter # None
    /\ content_filter[1].allowed_agencies # {}
    /\ \/ last.agency = None
       \/ last.agency[1] \notin content_filter[1].allowed_agencies

C16_LookupFailsOpen ==
    /\ \A k \in DOMAIN job.log :
           /\ job.log[k].episode = job.unique_episodes[k]
           /\ ~job.log[k].answered =>
                  /\ ~job.log[k].exists
                  /\ job.log[k].attempted
    /\ job.pc = "adding" => Len(job.log) = job.i - 1
    /\ job.pc = "returned" => Len(job.log) = Len(job.unique_episodes)

\* C16 witness: the lookup of the first of two units failed, the unit was
\* written, and the second unit was handled after it.
C16_WroteAfterFailedLookup ==
    /\ job.pc = "returned"
    /\ Len(job.log) = 2
    /\ ~job.log[1].answered
    /\ job.log[1].added
    /\ job.log[2].attempted

\* The titles of a list of units.
Titles(episodes) == {episodes[i].title : i \in DOMAIN episodes}

\* The first unit of the list with the title.
FirstWithTitle(episodes, title) ==
    episodes[CHOOSE i \in DOMAIN episodes :
                 /\ episodes[i].title = title
                 /\ \A j \in 1 .. (i - 1) : episodes[j].title # title]

\* The entries of a log that added nothing.
NotAdded(log) == {k \in DOMAIN log : ~log[k].added}

\* C17: a lookup and write is attempted for at most one unit per distinct
\* title of the input, its first occurrence; when the call has returned,
\* every distinct title was handled once, and every later unit with a seen
\* title was counted as skipped without a lookup or a write.
C17_FirstOccurrencePerTitle ==
    /\ \A k \in DOMAIN job.log :
           /\ job.log[k].episode.title \in Titles(job.episodes)
           /\ job.log[k].episode =
                  FirstWithTitle(job.episodes, job.log[k].episode.title)
           /\ \A m \in DOMAIN job.log :
                  job.log[m].episode.title = job.log[k].episode.title
                      => m = k
    /\ job.pc = "returned" =>
           /\ Len(job.log) = Cardinality(Titles(job.episodes))
           /\ job.stats.skipped =
                  (Len(job.episodes) - Cardinality(Titles(job.episodes)))
                      + Cardinality(NotAdded(job.log))
           /\ job.stats.new_added + job.stats.skipped = Len(job.episodes)

\* C17 witness: of three units with two titles, two were written and the
\* repeated one was skipped.
C17_RepeatedTitleSkipped ==
    /\ job.pc = "returned"
    /\ job.episodes = <<UnitD, UnitC, UnitD>>
    /\ Len(job.log) = 2
    /\ job.stats.new_added = 2
    /\ job.stats.skipped = 1

\* Every lookup of the log was answered.
AllAnswered(log) == \A k \in DOMAIN log : log[k].answered

\* The number of times the log added the unit.
TimesAdded(log, episode) ==
    Cardinality({k \in DOMAIN log :
                     log[k].episode = episode /\ log[k].added})

\* The call has returned and the call before it had the same input.
SecondPass ==
    /\ job.pc = "returned"
    /\ job.prev # None
    /\ job.prev[1].episodes = job.episodes

Keyed ==
    {[episode |-> job.log[k].episode, name |-> job.log[k].name] :
         k \in DOMAIN job.log}
    \cup (IF job.prev = None THEN {}
          ELSE {[episode |-> job.prev[1].log[k].episode,
                 name |-> job.prev[1].log[k].name] :
                    k \in DOMAIN job.prev[1].log})

HashPrefix(e) == Md5Hex8(e.title \o <<":">> \o e.content)

IsGet == fetch'.gets = fetch.gets + 1

\* C9 as the specification states it: every response with status 200 ends
\* the call successfully with the response's body after one jitter sleep.
C9_Status200EndsFetch ==
    [][ (IsGet /\ fetch'.resp \in Status200)
            => /\ fetch'.pc = "returned"
               /\ fetch'.text # None
               /\ fetch'.jitters = 1 ]_vars

\* C9, amended: a _fetch call issues at most max_retries GET requests and
\* always terminates; the first status-200 response whose body is read
\* without an exception ends the call with that body after exactly one
\* jitter sleep, no backoff sleep of its own and no further GET; every other
\* outcome of a GET (another status, an exception of the GET, an exception
\* of reading the body of a 200 response) leads to the next attempt as long
\* as attempts remain, and to the raise after the last one.
C9_FetchBoundedAndTerminates ==
    /\ [](fetch.gets <= max_retries /\ fetch.jitters <= 1)
    /\ [][ IsGet =>
            /\ fetch.pc = "get"
            /\ fetch'.resp = "ok" =>
                  /\ fetch'.pc = "returned"
                  /\ \E page \in Pages : fetch'.text = Some(page)
                  /\ fetch'.jitters = 1
                  /\ fetch'.slept = fetch.slept
            /\ fetch'.resp # "ok" =>
                  /\ fetch'.text = None
                  /\ fetch'.jitters = 0
                  /\ IF fetch.attempt < max_retries
                     THEN /\ fetch'.pc = "get"
                          /\ fetch'.attempt = fetch.attempt + 1
                     ELSE fetch'.pc = "raised" ]_vars
    /\ [][ fetch.pc \in {"returned", "raised"} => ~IsGet ]_vars
    /\ (fetch.pc = "get") ~> (fetch.pc \in {"returned", "raised"})

\* C9 witness: a call that returned the body of its third GET.
C9_ReturnedOnLastAttempt ==
    /\ fetch.pc = "returned"
    /\ fetch.gets = max_retries
    /\ fetch.jitters = 1
    /\ fetch.text = Some(PageGood)

\* C10: a _fetch call whose 3 attempts all failed has no text to return: it
\* raises, and it raises only after the 3 GET requests and a cumulative
\* backoff sleep of at least 2^1 + 2^2 seconds.
C10_ExhaustedRaisesAfterBackoff ==
    /\ (fetch.gets = 3 /\ fetch.resp # "ok")
           => fetch.pc = "raised" /\ fetch.text = None
    /\ fetch.pc = "raised"
           => /\ fetch.gets = 3
              /\ fetch.resp # "ok"
              /\ fetch.text = None
              /\ fetch.jitters = 0
              /\ fetch.slept >= 2^1 + 2^2

\* C10 witness: a call that raised after three failed attempts.
C10_Exhausted ==
    /\ fetch.pc = "raised"
    /\ fetch.gets = 3
    /\ fetch.slept = 2^1 + 2^2 + 2^3

(* ---------------------------------------------------------------------- *)
(* C23: the backoff waits of TenderScraper._fetch                         *)
(* ---------------------------------------------------------------------- *)

\* C23: a backoff wait follows a failed attempt exactly when another attempt
\* follows it; the last failed attempt is followed by the raise without a
\* wait, so a call whose max_retries attempts all failed has waited
\* 2^1 + ... + 2^(max_retries - 1) seconds.
C23_BackoffOnlyBetweenAttempts ==
    /\ [][ (IsGet /\ fetch'.resp # "ok")
               => (fetch'.slept # fetch.slept <=> fetch'.pc = "get") ]_vars
    /\ [](fetch.pc = "raised" => fetch.slept = 2^max_retries - 2)

(* ---------------------------------------------------------------------- *)
(* C24: the order of the stages of process_tender                         *)
(* ---------------------------------------------------------------------- *)

\* The place of a stage in the pipeline; the safety check of the entity
\* summary belongs to the commit.
Rank(stage) ==
    CASE stage = "fetch" -> 1
      [] stage = "extract" -> 2
      [] stage = "agency_check" -> 3
      [] stage = "unit_check" -> 4
      [] stage = "preview" -> 5
      [] stage \in {"write", "summary_check"} -> 6

\* The positions of a stage in a trace.
At(trace, stage) == {i \in DOMAIN trace : trace[i].stage = stage}

\* The stages of the trace are in pipeline order, with at most one fetch,
\* extraction, agency check and preview, and nothing written unless the
\* preview was evaluated.
InPipelineOrder(trace) ==
    /\ \A i \in DOMAIN trace, j \in DOMAIN trace :
           i < j => Rank(trace[i].stage) <= Rank(trace[j].stage)
    /\ \A stage \in {"fetch", "extract", "agency_check", "preview"} :
           Cardinality(At(trace, stage)) <= 1
    /\ trace # <<>> => trace[1].stage = "fetch"
    /\ At(trace, "write") # {} => At(trace, "preview") # {}

\* The preview was evaluated once, with `batch`.
PreviewedOnce(trace, batch) ==
    /\ Cardinality(At(trace, "preview")) = 1
    /\ \A i \in At(trace, "preview") : trace[i].n = Len(batch)

Delta(k) == last.stats1[k] - last.stats0[k]

IsCancel(t) == tasks'[t].cancels = tasks[t].cancels + 1

MaxFiles == 2

\* A file of the directory: one open() cannot read, or one holding a page.
\* None of the pages names a budget or a date, so the summary carries no
\* property line.
Files ==
    {[readable |-> FALSE, html |-> EmptyPage]}
    \cup {[readable |-> TRUE, html |-> p] :
              p \in {PageNoAgency, PageRejected, PageNoName, PageBlank}}

\* Path(file_path).stem of the i-th file: "tender_<i>" for odd i, "<i>" for
\* even i.
StemPrefix == <<"t", "e", "n", "d", "e", "r", "_">>
Stem(i) == IF i % 2 = 1 THEN StemPrefix \o <<ToString(i)>> ELSE <<ToString(i)>>

StartsWith(s, prefix) ==
    Len(s) >= Len(prefix) /\ SubSeq(s, 1, Len(prefix)) = prefix

\* str.replace(old, ""): every occurrence of `old` removed, left to right.
RECURSIVE RemoveAll(_, _)
RemoveAll(s, old) ==
    IF s = <<>> THEN <<>>
    ELSE IF StartsWith(s, old)
    THEN RemoveAll(SubSeq(s, Len(old) + 1, Len(s)), old)
    ELSE <<Head(s)>> \o RemoveAll(Tail(s), old)

\* file_name.replace('tender_', '') if file_name.startswith('tender_')
\* else file_name
SampleTenderId(file_name) ==
    IF StartsWith(file_name, StemPrefix)
    THEN RemoveAll(file_name, StemPrefix)
    ELSE file_name

\* The header line of the sample processor's entity summary.
SampleSummaryHeader(tender_name) ==
    <<"U+62DB", "U+6A19", "U+6848", "U+300C">> \o tender_name
    \o <<"U+300D", "U+76F8", "U+95DC", "U+5BE6", "U+9AD4", "U+FF1A", "\n">>

RECURSIVE SampleEpisodeOps(_, _)
SampleEpisodeOps(tender_id, episodes) ==
    IF episodes = <<>> THEN <<>>
    ELSE <<AddEpisode(tender_id, "unit", Head(episodes).title,
                      Head(episodes).content)>>
         \o SampleEpisodeOps(tender_id, Tail(episodes))

\* The add_episode calls process_html_file makes for parsed data with a
\* name: one per episode, then the entity summary when there are entities.
SampleOps(tender_id, tender_data) ==
    SampleEpisodeOps(tender_id, ConvertTenderDataToEpisodes(tender_data))
    \o (IF CreateTenderEntities(tender_data) # <<>>
        THEN <<AddEpisode(tender_id, "summary",
                          SummaryNamePrefix \o tender_data.tender_name[1],
                          SampleSummaryHeader(tender_data.tender_name[1])
                          \o EntityLines(CreateTenderEntities(tender_data)))>>
        ELSE <<>>)

\* The add_episode calls the file leads to: none when it cannot be read,
\* cannot be parsed or yields no name.
FileOps(file, file_name) ==
    IF ~file.readable \/ ParseTenderDetail(file.html).error # "none"
    THEN <<>>
    ELSE IF NameAbsent(ParseTenderDetail(file.html).data[1]) THEN <<>>
    ELSE SampleOps(SampleTenderId(file_name),
                   ParseTenderDetail(file.html).data[1])

RECURSIVE ReceivedAll(_, _)
ReceivedAll(bag, ops) ==
    IF ops = <<>> THEN bag
    ELSE ReceivedAll(Received(bag, Head(ops)), Tail(ops))

\* The body of process_html_file's try block.  `oks` tells, per add_episode
\* call, whether the client returned.  `exc` is TRUE when an exception
\* reaches the outer handler: open() or parse_tender_detail raised.  A
\* failed add_episode is caught by the handler around it, which appends to
\* stats["errors"].
HtmlFileBody(file, file_name, oks, st, bag) ==
    IF ~file.readable \/ ParseTenderDetail(file.html).error # "none"
    THEN [exc |-> TRUE, stats |-> st, store |-> bag]
    ELSE IF NameAbsent(ParseTenderDetail(file.html).data[1])
    THEN [exc |-> FALSE, stats |-> st, store |-> bag]
    ELSE [ exc   |-> FALSE,
           stats |-> [ st EXCEPT
                         !.total_episodes =
                             @ + Cardinality({k \in DOMAIN oks : oks[k]}),
                         !.total_entities =
                             @ + Len(CreateTenderEntities(
                                     ParseTenderDetail(file.html).data[1])),
                         !.errors =
                             @ + Cardinality({k \in DOMAIN oks : ~oks[k]}) ],
           store |-> ReceivedAll(bag, FileOps(file, file_name)) ]

\* An outer handler that logs and raises again.
OuterExcept_Reraise(r) ==
    [raised |-> r.exc, stats |-> r.stats, store |-> r.store]

\* except Exception as e: log, self.stats["errors"].append(...), return []
OuterExcept(r) ==
    [ raised |-> FALSE,
      stats  |-> IF r.exc THEN [r.stats EXCEPT !.errors = @ + 1]
                 ELSE r.stats,
      store  |-> r.store ]

\* process_html_file as its caller sees it.
ProcessHtmlFile(file, file_name, oks, st, bag) ==
    OuterExcept(HtmlFileBody(file, file_name, oks, st, bag))

\* print_stats: the lines it logs.
PrintStats(st) ==
    [ total_files      |-> st.total_files,
      successful_files |-> st.successful_files,
      failed           |-> st.total_files - st.successful_files,
      total_episodes   |-> st.total_episodes,
      total_entities   |-> st.total_entities,
      errors           |-> st.errors ]

\* process_all_tender_files up to its loop; html_files is
\* list(tender_dir.glob("*.html")).  A missing directory and a
\* directory without files return before any statistics are printed.
ProcessAllTenderFiles(exists, html_files) ==
    /\ sample.pc = "idle"
    /\ sample' =
           IF ~exists THEN [sample EXCEPT !.pc = "returned"]
           ELSE IF html_files = <<>>
           THEN [sample EXCEPT !.pc = "returned", !.stats.total_files = 0]
           ELSE [sample EXCEPT !.pc = "files", !.files = html_files,
                               !.i = 1,
                               !.stats.total_files = Len(html_files)]
    /\ UNCHANGED store
    /\ UNCHANGED <<content_filter, write_preview, processed_tenders, stats,
                   session, fetch, call, last, probe, run, graph, job, tasks>>

\* One iteration of the loop over the files.
SampleFile(oks) ==
    /\ sample.pc = "files"
    /\ \E r \in {ProcessHtmlFile(sample.files[sample.i], Stem(sample.i), oks,
                                 sample.stats, store)} :
          /\ sample' =
                 [sample EXCEPT
                    !.stats = IF r.raised
                              THEN [r.stats EXCEPT !.errors = @ + 1]
                              ELSE [r.stats EXCEPT !.successful_files = @ + 1],
                    !.i  = @ + 1,
                    !.pc = IF sample.i = Len(sample.files)
                           THEN "print" ELSE "files"]
          /\ store' = r.store
    /\ UNCHANGED <<content_filter, write_preview, processed_tenders, stats,
                   session, fetch, call, last, probe, run, graph, job, tasks>>

\* self.print_stats() after the loop.
SamplePrintStats ==
    /\ sample.pc = "print"
    /\ sample' = [sample EXCEPT !.pc = "returned",
                                !.report = Some(PrintStats(sample.stats))]
    /\ UNCHANGED store
    /\ UNCHANGED <<content_filter, write_preview, processed_tenders, stats,
                   session, fetch, call, last, probe, run, graph, job, tasks>>

NextSample ==
    \/ \E exists \in BOOLEAN,
          html_files \in UNION {[1..n -> Files] : n \in 0..MaxFiles} :
          ProcessAllTenderFiles(exists, html_files)
    \/ /\ sample.pc = "files"
       /\ \E oks \in [1..Len(FileOps(sample.files[sample.i],
                                      Stem(sample.i))) -> BOOLEAN] :
             SampleFile(oks)
    \/ SamplePrintStats

SpecSample == Init /\ [][NextSample]_vars

\* Whether the i-th file of the run reached process_html_file's outer
\* handler.
FileFailed(i) ==
    \/ ~sample.files[i].readable
    \/ ParseTenderDetail(sample.files[i].html).error # "none"

\* C29: process_html_file never lets an exception out, so the loop of
\* process_all_tender_files counts every file as successful: after each
\* iteration successful_files is the number of files gone through, and once
\* the call over a non-empty directory has returned successful_files equals
\* total_files and print_stats has reported 0 failed files, however many
\* files failed.
C29_EveryFileCountedSuccessful ==
    /\ sample.pc \in {"files", "print"}
           => sample.stats.successful_files = sample.i - 1
    /\ (sample.pc = "returned" /\ sample.files # <<>>)
           => /\ sample.stats.successful_files = sample.stats.total_files
              /\ sample.stats.total_files = Len(sample.files)
              /\ sample.report # None
              /\ sample.report[1].failed = 0

\* C29 witness: the call has returned over a directory in which every file
\* failed (unreadable or unparsable), the errors are recorded, and the
\* report says no file failed.
C29_AllFilesFailedNoneReported ==
    /\ sample.pc = "returned"
    /\ Len(sample.files) = MaxFiles
    /\ \A i \in DOMAIN sample.files : FileFailed(i)
    /\ \E i \in DOMAIN sample.files : ~sample.files[i].readable
    /\ sample.stats.errors = Len(sample.files)
    /\ sample.report # None
    /\ sample.report[1].failed = 0

(* ---------------------------------------------------------------------- *)
(* C30: the statistics of process_episodes_batch                          *)
(* ---------------------------------------------------------------------- *)

\* The units of the input the first loop dropped as repeated titles.
LocalDuplicates == Len(job.episodes) - Len(job.unique_episodes)

\* The iterations of the second loop that added their unit.
AddedEntries == {k \in DOMAIN job.log : job.log[k].added}

\* C30: the statistics partition the input.  While process_episodes_batch
\* runs, and when it has returned, new_added counts the units written,
\* skipped counts the repeated titles and every unit handled without a
\* write (found in the store, or a failed write), total_processed equals
\* new_added and updated stays 0; each step of the second loop raises
\* exactly one of new_added and skipped by one; on return new_added +
\* skipped is the number of input units.
C30_StatsPartitionInput ==
    /\ [](job.pc \in {"adding", "returned"} =>
              /\ job.stats.new_added = Cardinality(AddedEntries)
              /\ job.stats.skipped =
                     LocalDuplicates + (Len(job.log) - Cardinality(AddedEntries))
              /\ job.stats.total_processed = job.stats.new_added
              /\ job.stats.updated = 0)
    /\ [](job.pc = "returned" =>
              /\ Len(job.log) = Len(job.unique_episodes)
              /\ job.stats.new_added + job.stats.skipped = Len(job.episodes))
    /\ [][ (job.pc = "adding" /\ job' # job) =>
              \/ /\ job'.stats.new_added = job.stats.new_added + 1
                 /\ job'.stats.skipped = job.stats.skipped
              \/ /\ job'.stats.new_added = job.stats.new_added
                 /\ job'.stats.skipped = job.stats.skipped + 1 ]_vars

\* C30 witness: a batch of three units has returned with one unit of each
\* kind: one skipped as a repeated title, one written, and one whose write
\* failed counted as skipped.
C30_OneOfEachKind ==
    /\ job.pc = "returned"
    /\ Len(job.episodes) = 3
    /\ LocalDuplicates = 1
    /\ Len(job.log) = 2
    /\ \E k \in DOMAIN job.log : job.log[k].added
    /\ \E k \in DOMAIN job.log :
           job.log[k].attempted /\ ~job.log[k].added
    /\ job.stats.new_added = 1
    /\ job.stats.skipped = 2
    /\ job.stats.total_processed = 1

====
